---- MODULE Spec2Model ----
(***************************************************************************)
(* A model of main.py: the index.xml crawler.  os.walk enumerates the      *)
(* directory tree, every file named index.xml becomes a task, a            *)
(* ThreadPoolExecutor runs extract_data_from_xml on every task, and the    *)
(* main thread concatenates the per-file row lists into one list.          *)
(***************************************************************************)
EXTENDS Integers, Sequences, FiniteSets, Bags, TLC

\* ------------------------------------------------------------------ bounds

\* Most elements in one XML document.
MaxElems == 2
\* Most directories in the tree (the root included).
MaxDirs == 3
\* Largest worker-pool size.
MaxWorkers == 2

\* --------------------------------------------------------------- constants

MISSING == "Missing"
\* File names are sequences of tokens: 'index.xml' is <<"index", ".xml">>.
FILE_EXTENSION == <<".xml">>
FILE_NAME == <<"index", ".xml">>

SUBSTANCE_TAG == "m3-2-s-drug-substance"
PRODUCT_TAG == "m3-2-p-drug-product"
SubstanceAttrs == {"manufacturer", "substance"}
ProductAttrs == {"manufacturer", "product-name", "dosageform"}

\* ------------------------------------------------------------ XML documents

\* The non-empty value an attribute carries when it is present and not empty.
AttrValue(k) ==
    CASE k = "manufacturer" -> "Acme"
      [] k = "substance" -> "X"
      [] k = "product-name" -> "Y"
      [] k = "dosageform" -> "tablet"

\* Attribute maps over a set of attribute names: every name is absent,
\* present and empty, or present with its value.
Attribs(keys) ==
    UNION { { a \in [S -> {""} \cup {AttrValue(k) : k \in S}] :
                \A k \in S : a[k] \in {"", AttrValue(k)} } : S \in SUBSET keys }

\* The elements of a document that matter: substance elements, product
\* elements, and any other element.
Elements ==
    {[tag |-> SUBSTANCE_TAG, attrib |-> a] : a \in Attribs(SubstanceAttrs)}
    \cup {[tag |-> PRODUCT_TAG, attrib |-> a] : a \in Attribs(ProductAttrs)}
    \cup {[tag |-> "section", attrib |-> a] : a \in Attribs({})}

\* A parsed document is the sequence of its elements in document order.
Documents(k) == [1..k -> Elements]

\* root.xpath('//tag'): the elements with that tag, in document order.
xpath(elems, tag) ==
    LET Test(e) == e.tag = tag IN SelectSeq(elems, Test)

\* element.get(k) or default: the default replaces an absent attribute (None)
\* and an empty one ('').
GetOr(e, k, default) ==
    IF k \in DOMAIN e.attrib /\ e.attrib[k] # "" THEN e.attrib[k] ELSE default

\* Mutant of SubstanceRow: the manufacturer and the name change places.
SubstanceRowSwapped(path, e) ==
    <<"drug_substance", path, GetOr(e, "substance", MISSING),
      GetOr(e, "manufacturer", MISSING), "N/A">>

SubstanceRow(path, e) ==
    <<"drug_substance", path, GetOr(e, "manufacturer", MISSING),
      GetOr(e, "substance", MISSING), "N/A">>

ProductRow(path, e) ==
    <<"drug_product", path, GetOr(e, "manufacturer", MISSING),
      GetOr(e, "product-name", MISSING), GetOr(e, "dosageform", MISSING)>>

\* Mutant of SubstanceRows: the else branch of line 58 is missing.
SubstanceRowsNoPlaceholder(path, subs) ==
    [i \in 1..Len(subs) |-> SubstanceRow(path, subs[i])]

\* Lines 47-59: one row per substance element, or the placeholder row.
SubstanceRows(path, subs) ==
    IF subs # <<>>
    THEN [i \in 1..Len(subs) |-> SubstanceRow(path, subs[i])]
    ELSE << <<"drug_substance", path, MISSING, MISSING, "N/A">> >>

\* Mutant of ProductRows: products get a placeholder row as substances do.
ProductRowsWithPlaceholder(path, prods) ==
    IF prods # <<>>
    THEN [i \in 1..Len(prods) |-> ProductRow(path, prods[i])]
    ELSE << <<"drug_product", path, MISSING, MISSING, MISSING>> >>

\* Lines 60-68: one row per product element.
ProductRows(path, prods) ==
    [i \in 1..Len(prods) |-> ProductRow(path, prods[i])]

\* The rows the try block appends when nothing is raised, in append order.
TryRows(path, elems) ==
    SubstanceRows(path, xpath(elems, SUBSTANCE_TAG))
    \o ProductRows(path, xpath(elems, PRODUCT_TAG))

\* What is on disk under a candidate path, seen from the extractor:
\*   raises = "none"            the file parses and nothing is raised;
\*   raises = "XMLSyntaxError"  etree.parse rejects the file (at = 0);
\*   raises = "Exception"       another exception is raised inside the try
\*                              block after `at` rows were appended (at = 0:
\*                              the file cannot be read, or xpath fails).
WellFormed(elems) == [elems |-> elems, raises |-> "none", at |-> 0]
Malformed == [elems |-> <<>>, raises |-> "XMLSyntaxError", at |-> 0]
Unreadable == [elems |-> <<>>, raises |-> "Exception", at |-> 0]
Failing(elems, n) == [elems |-> elems, raises |-> "Exception", at |-> n]

\* The except clauses of lines 69-75: the warning each writes.
Warning(path, exc) ==
    IF exc = "XMLSyntaxError"
    THEN <<path, "is not a well-formed XML file">>
    ELSE <<path, "Unexpected error occurred">>

\* Mutant of Caught: the clause of line 72 is missing.
CaughtSyntaxErrorOnly(exc) == exc = "XMLSyntaxError"

\* Lines 69 and 72: XMLSyntaxError and every other Exception are caught.
Caught(exc) == exc \in {"XMLSyntaxError", "Exception"}

\* Mutant of extract_data_from_xml: the placeholder row is added after the
\* try block, whenever no row was built.
extract_placeholder_after_try(path, f) ==
    LET rows == ProductRows(path, xpath(f.elems, PRODUCT_TAG))
        subs == xpath(f.elems, SUBSTANCE_TAG)
        body == [i \in 1..Len(subs) |-> SubstanceRow(path, subs[i])] \o rows
        data == IF f.raises = "none" THEN body ELSE SubSeq(body, 1, f.at)
    IN  [returned |-> TRUE,
         data |-> IF data = <<>>
                  THEN << <<"drug_substance", path, MISSING, MISSING, "N/A">> >>
                  ELSE data,
         warnings |-> IF f.raises = "none" THEN <<>> ELSE <<Warning(path, f.raises)>>]

\* extract_data_from_xml: `data` is created before the try block and returned
\* after it, so it holds whatever was appended before an exception.
extract_data_from_xml(path, f) ==
    LET data == IF f.raises = "none"
                THEN TryRows(path, f.elems)
                ELSE SubSeq(TryRows(path, f.elems), 1, f.at)
    IN  IF f.raises = "none"
        THEN [returned |-> TRUE, data |-> data, warnings |-> <<>>]
        ELSE IF Caught(f.raises)
        THEN [returned |-> TRUE, data |-> data,
              warnings |-> <<Warning(path, f.raises)>>]
        ELSE [returned |-> FALSE, data |-> <<>>, warnings |-> <<>>]

\* ---------------------------------------------------------- the file system

\* Files that are in every directory and must never become candidates.
Decoys ==
    << [name |-> <<"index", ".xml", ".bak">>, content |-> Malformed],
       [name |-> <<"other", ".xml">>, content |-> Malformed],
       [name |-> <<"index", ".txt">>, content |-> Malformed] >>

S1 == [tag |-> SUBSTANCE_TAG,
       attrib |-> [k \in SubstanceAttrs |-> AttrValue(k)]]
P1 == [tag |-> PRODUCT_TAG,
       attrib |-> [k \in {"product-name", "dosageform"} |-> AttrValue(k)]]

\* The index.xml files the trees of several directories are built from: a
\* file with a substance and a product element, one with a product element
\* only, a malformed one, and one whose extraction raises after the first row.
SampleFiles ==
    {WellFormed(<<S1, P1>>), WellFormed(<<P1>>), Malformed, Failing(<<S1, P1>>, 1)}

\* The listing of a directory that holds the decoys and an index.xml.
Listing(f) ==
    <<Decoys[1], [name |-> FILE_NAME, content |-> f], Decoys[2], Decoys[3]>>

\* The listings of a directory: the decoys, with or without an index.xml.
Listings == {Decoys} \cup {Listing(f) : f \in SampleFiles}

\* Directory 1 is the root; every other directory lies in the root or in the
\* directory before it, which gives chains, stars and their mixtures.
Parents(n) ==
    { p \in [1..n -> 0..(n - 1)] : p[1] = 0 /\ \A d \in 2..n : p[d] \in {1, d - 1} }

\* The trees of n directories, each readable or not, each with or without an
\* index.xml among its files.
Trees(n) ==
    { [d \in 1..n |-> [parent |-> p[d], readable |-> r[d], files |-> c[d]]] :
        p \in Parents(n), r \in [1..n -> BOOLEAN], c \in [1..n -> Listings] }

\* The tree of one directory that holds one index.xml.
OneFileTree(f) == <<[parent |-> 0, readable |-> TRUE, files |-> Listing(f)]>>

VARIABLES
    fs,             \* the directory tree under target_path
    max_workers,    \* the pool size of ThreadPoolExecutor()
    pc,             \* where the main thread is
    stack,          \* os.walk: directories still to visit
    tasks,          \* browse_and_extract: tasks (the paths)
    xml_file_count, \* browse_and_extract: xml_file_count
    work_queue,     \* executor: submitted work items not yet taken
    running,        \* executor: work items a worker thread is running
    futures,        \* executor.map: one future per task
    results,        \* browse_and_extract: results, as far as list() has built it
    merged,         \* browse_and_extract: results the for loop has gone through
    data,           \* browse_and_extract: data
    warning_log,    \* warningLogger: the entries written, as a bag
    returned,       \* what browse_and_extract returned
    main_pc,        \* where main is
    summary,        \* main: the summary printed
    csv_file        \* main: the output_<timestamp>.csv written

vars == <<fs, max_workers, pc, stack, tasks, xml_file_count, work_queue, running,
          futures, results, merged, data, warning_log, returned, main_pc, summary,
          csv_file>>

\* What main alone writes.
main_vars == <<main_pc, summary, csv_file>>

NoSummary ==
    [printed |-> FALSE, drug_substance_count |-> 0, drug_product_count |-> 0,
     xml_file_count |-> 0]

NoCsvFile == [written |-> FALSE, header |-> <<>>, rows |-> <<>>]

NotReturned == [done |-> FALSE, data |-> <<>>, xml_file_count |-> 0]

\* The directories of fs that lie in directory d, in listing order.
Subfolders(d) ==
    LET Test(c) == fs[c].parent = d
    IN  SelectSeq([c \in 1..Len(fs) |-> c], Test)

\* The names os.walk reports as filenames of directory d.
Filenames(d) == [i \in 1..Len(fs[d].files) |-> fs[d].files[i].name]

\* str.endswith
endswith(f, suffix) ==
    /\ Len(f) >= Len(suffix)
    /\ SubSeq(f, Len(f) - Len(suffix) + 1, Len(f)) = suffix

\* Mutant of IsXmlFile: only the extension is compared.
IsXmlFileByExtension(f, file_extension, file_name) == endswith(f, file_extension)

\* Line 88: the filter of the list comprehension.
IsXmlFile(f, file_extension, file_name) ==
    endswith(f, file_extension) /\ f = file_name

\* Path(foldername) / filename
MkPath(d, filename) == <<d, filename>>

\* The content of the file at a path.
ReadFile(path) ==
    LET Test(e) == e.name = path[2]
    IN  SelectSeq(fs[path[1]].files, Test)[1].content

\* The state when browse_and_extract is entered.
Entered ==
    /\ pc = "walk"
    /\ stack = <<1>>
    /\ tasks = <<>>
    /\ xml_file_count = 0
    /\ work_queue = <<>>
    /\ running = {}
    /\ futures = <<>>
    /\ results = <<>>
    /\ merged = 0
    /\ data = <<>>
    /\ warning_log = EmptyBag
    /\ returned = NotReturned
    /\ main_pc = "browse"
    /\ summary = NoSummary
    /\ csv_file = NoCsvFile

\* A run on a tree of up to MaxDirs directories built from the sample files,
\* with a pool of up to MaxWorkers threads.
InitTrees ==
    /\ \E n \in 1..MaxDirs : fs \in Trees(n)
    /\ max_workers \in 1..MaxWorkers
    /\ Entered

\* A run on a single directory whose index.xml is any document of up to
\* MaxElems elements, extracted with or without an exception on the way, or
\* cannot be read.
InitOneFile ==
    /\ \/ \E k \in 0..MaxElems : \E es \in Documents(k) :
             \E n \in 0..Len(TryRows(0, es)) :
                fs = OneFileTree(IF n = 0 THEN WellFormed(es) ELSE Failing(es, n))
       \/ fs = OneFileTree(Unreadable)
    /\ max_workers = 1
    /\ Entered

Init == InitTrees \/ InitOneFile

\* Mutant of WalkStep: the walk ends at the first directory it cannot list.
WalkStepStopsAtError ==
    /\ pc = "walk"
    /\ stack # <<>>
    /\ LET d == Head(stack)
           Test(f) == IsXmlFile(f, FILE_EXTENSION, FILE_NAME)
           xml_files == SelectSeq(Filenames(d), Test)
       IN  IF fs[d].readable
           THEN /\ xml_file_count' = xml_file_count + Len(xml_files)
                /\ tasks' = tasks \o [i \in 1..Len(xml_files) |-> MkPath(d, xml_files[i])]
                /\ stack' = Subfolders(d) \o Tail(stack)
           ELSE /\ stack' = <<>>
                /\ UNCHANGED <<xml_file_count, tasks>>
    /\ UNCHANGED <<main_vars, fs, max_workers, pc, work_queue, running, futures, results,
                   merged, data, warning_log, returned>>

\* Lines 86-92: one iteration of os.walk and of the loop body.  A directory
\* that cannot be listed is passed over (os.walk is called without onerror),
\* and its subdirectories are never visited.
WalkStep ==
    /\ pc = "walk"
    /\ stack # <<>>
    /\ LET d == Head(stack)
           Test(f) == IsXmlFile(f, FILE_EXTENSION, FILE_NAME)
           xml_files == SelectSeq(Filenames(d), Test)
       IN  IF fs[d].readable
           THEN /\ xml_file_count' = xml_file_count + Len(xml_files)
                /\ tasks' = tasks \o [i \in 1..Len(xml_files) |-> MkPath(d, xml_files[i])]
                /\ stack' = Subfolders(d) \o Tail(stack)
           ELSE /\ stack' = Tail(stack)
                /\ UNCHANGED <<xml_file_count, tasks>>
    /\ UNCHANGED <<main_vars, fs, max_workers, pc, work_queue, running, futures, results,
                   merged, data, warning_log, returned>>

\* Line 93, executor.map: every task is submitted, in order, before any
\* result is asked for.
Map ==
    /\ pc = "walk"
    /\ stack = <<>>
    /\ futures' = [i \in 1..Len(tasks) |-> [state |-> "PENDING", result |-> <<>>,
                                             exception |-> FALSE]]
    /\ work_queue' = [i \in 1..Len(tasks) |-> i]
    /\ pc' = "list"
    /\ UNCHANGED <<main_vars, fs, max_workers, stack, tasks, xml_file_count, running, results,
                   merged, data, warning_log, returned>>

\* Mutant of WorkerTake: a thread is started for every work item.
WorkerTakeUnbounded ==
    /\ work_queue # <<>>
    /\ running' = running \cup {Head(work_queue)}
    /\ futures' = [futures EXCEPT ![Head(work_queue)].state = "RUNNING"]
    /\ work_queue' = Tail(work_queue)
    /\ UNCHANGED <<main_vars, fs, max_workers, pc, stack, tasks, xml_file_count, results,
                   merged, data, warning_log, returned>>

\* A worker thread takes the next work item; at most max_workers threads exist.
WorkerTake ==
    /\ work_queue # <<>>
    /\ Cardinality(running) < max_workers
    /\ running' = running \cup {Head(work_queue)}
    /\ futures' = [futures EXCEPT ![Head(work_queue)].state = "RUNNING"]
    /\ work_queue' = Tail(work_queue)
    /\ UNCHANGED <<main_vars, fs, max_workers, pc, stack, tasks, xml_file_count, results,
                   merged, data, warning_log, returned>>

\* Mutant of WorkerRun: the worker thread adds its rows to the shared list.
WorkerRunSharedData(i) ==
    /\ i \in running
    /\ LET out == extract_data_from_xml(tasks[i], ReadFile(tasks[i]))
       IN  /\ futures' = [futures EXCEPT ![i] = [state |-> "FINISHED",
                                                 result |-> <<>>,
                                                 exception |-> ~out.returned]]
           /\ data' = data \o out.data
           /\ warning_log' = warning_log (+) [w \in {out.warnings[j] : j \in 1..Len(out.warnings)} |-> 1]
    /\ running' = running \ {i}
    /\ UNCHANGED <<main_vars, fs, max_workers, pc, stack, tasks, xml_file_count, work_queue,
                   results, merged, returned>>

\* A worker thread runs extract_data_from_xml on its task to the end and sets
\* the future.
WorkerRun(i) ==
    /\ i \in running
    /\ LET out == extract_data_from_xml(tasks[i], ReadFile(tasks[i]))
       IN  /\ futures' = [futures EXCEPT ![i] = [state |-> "FINISHED",
                                                 result |-> out.data,
                                                 exception |-> ~out.returned]]
           /\ warning_log' = warning_log (+) [w \in {out.warnings[j] : j \in 1..Len(out.warnings)} |-> 1]
    /\ running' = running \ {i}
    /\ UNCHANGED <<main_vars, fs, max_workers, pc, stack, tasks, xml_file_count, work_queue,
                   results, merged, data, returned>>

\* Mutant of Collect: a result is taken without waiting for its future.
CollectWithoutWaiting ==
    /\ pc = "list"
    /\ IF Len(results) < Len(tasks)
       THEN results' = Append(results, futures[Len(results) + 1].result) /\ UNCHANGED pc
       ELSE pc' = "merge" /\ UNCHANGED results
    /\ UNCHANGED <<main_vars, fs, max_workers, stack, tasks, xml_file_count, work_queue, running,
                   futures, merged, data, warning_log, returned>>

\* Mutant of Collect: each result is added to data as soon as it is taken
\* (for result in executor.map(...): data.extend(result)).
CollectAndMerge ==
    /\ pc = "list"
    /\ IF Len(results) < Len(tasks)
       THEN LET fut == futures[Len(results) + 1]
            IN  /\ fut.state = "FINISHED"
                /\ IF fut.exception
                   THEN pc' = "raised" /\ UNCHANGED <<results, data, merged>>
                   ELSE /\ results' = Append(results, fut.result)
                        /\ data' = data \o fut.result
                        /\ merged' = merged + 1
                        /\ UNCHANGED pc
       ELSE pc' = "merge" /\ UNCHANGED <<results, data, merged>>
    /\ UNCHANGED <<main_vars, fs, max_workers, stack, tasks, xml_file_count, work_queue, running,
                   futures, warning_log, returned>>

\* Line 93, list(...): the results are taken in submission order, each when
\* its future is finished; a future that holds an exception raises it here.
Collect ==
    /\ pc = "list"
    /\ IF Len(results) < Len(tasks)
       THEN LET fut == futures[Len(results) + 1]
            IN  /\ fut.state = "FINISHED"
                /\ IF fut.exception
                   THEN pc' = "raised" /\ UNCHANGED results
                   ELSE results' = Append(results, fut.result) /\ UNCHANGED pc
       ELSE pc' = "merge" /\ UNCHANGED results
    /\ UNCHANGED <<main_vars, fs, max_workers, stack, tasks, xml_file_count, work_queue, running,
                   futures, merged, data, warning_log, returned>>

Reverse(s) == [i \in 1..Len(s) |-> s[Len(s) + 1 - i]]

\* Mutant of Merge: the rows of a result are added last row first.
MergeReversed ==
    /\ pc = "merge"
    /\ IF merged < Len(results)
       THEN /\ data' = data \o Reverse(results[merged + 1])
            /\ merged' = merged + 1
            /\ UNCHANGED pc
       ELSE pc' = "exit" /\ UNCHANGED <<data, merged>>
    /\ UNCHANGED <<main_vars, fs, max_workers, stack, tasks, xml_file_count, work_queue, running,
                   futures, results, warning_log, returned>>

\* Mutant of Merge: data = result instead of data.extend(result).
MergeByAssignment ==
    /\ pc = "merge"
    /\ IF merged < Len(results)
       THEN /\ data' = results[merged + 1]
            /\ merged' = merged + 1
            /\ UNCHANGED pc
       ELSE pc' = "exit" /\ UNCHANGED <<data, merged>>
    /\ UNCHANGED <<main_vars, fs, max_workers, stack, tasks, xml_file_count, work_queue, running,
                   futures, results, warning_log, returned>>

\* Mutant of Merge: the rows of a result are put before the rows merged so far.
MergePrepend ==
    /\ pc = "merge"
    /\ IF merged < Len(results)
       THEN /\ data' = results[merged + 1] \o data
            /\ merged' = merged + 1
            /\ UNCHANGED pc
       ELSE pc' = "exit" /\ UNCHANGED <<data, merged>>
    /\ UNCHANGED <<main_vars, fs, max_workers, stack, tasks, xml_file_count, work_queue, running,
                   futures, results, warning_log, returned>>

\* Lines 94-95: one iteration of the for loop, or its end.
Merge ==
    /\ pc = "merge"
    /\ IF merged < Len(results)
       THEN /\ data' = data \o results[merged + 1]
            /\ merged' = merged + 1
            /\ UNCHANGED pc
       ELSE pc' = "exit" /\ UNCHANGED <<data, merged>>
    /\ UNCHANGED <<main_vars, fs, max_workers, stack, tasks, xml_file_count, work_queue, running,
                   futures, results, warning_log, returned>>

\* Lines 96-97: the with block is left (the executor is shut down, which waits
\* for the worker threads) and the function returns.
Return ==
    /\ pc = "exit"
    /\ work_queue = <<>> /\ running = {}
    /\ returned' = [done |-> TRUE, data |-> data, xml_file_count |-> xml_file_count]
    /\ pc' = "done"
    /\ UNCHANGED <<main_vars, fs, max_workers, stack, tasks, xml_file_count, work_queue, running,
                   futures, results, merged, data, warning_log>>

\* Mutant of CountRows: the distinct rows of a type are counted.
CountDistinctRows(rows, type) ==
    Cardinality({rows[k] : k \in {m \in 1..Len(rows) : rows[m][1] = type}})

\* The number of rows of a type (lines 118-119).
CountRows(rows, type) == Cardinality({k \in 1..Len(rows) : rows[k][1] = type})

\* main, lines 114-138: browse_and_extract has returned; the rows of each type
\* are counted and the summary is printed, then the CSV file is written when
\* data is not empty: the header row, then one row per record.
main ==
    /\ main_pc = "browse"
    /\ returned.done
    /\ summary' = [printed |-> TRUE,
                   drug_substance_count |-> CountRows(returned.data, "drug_substance"),
                   drug_product_count |-> CountRows(returned.data, "drug_product"),
                   xml_file_count |-> returned.xml_file_count]
    /\ IF returned.data # <<>>
       THEN csv_file' = [written |-> TRUE,
                         header |-> <<"Type", "File Path", "Manufacturer", "Name", "Form">>,
                         rows |-> returned.data]
       ELSE UNCHANGED csv_file
    /\ main_pc' = "end"
    /\ UNCHANGED <<fs, max_workers, pc, stack, tasks, xml_file_count, work_queue, running,
                   futures, results, merged, data, warning_log, returned>>

Next ==
    \/ WalkStep
    \/ Map
    \/ WorkerTake
    \/ \E i \in 1..Len(tasks) : WorkerRun(i)
    \/ Collect
    \/ Merge
    \/ Return
    \/ main

Spec == Init /\ [][Next]_vars

\* The runs on trees alone: what the walk, the pool and the merge do.
TreeSpec == InitTrees /\ [][Next]_vars

\* The main thread and the worker threads are scheduled, and one extraction
\* takes finitely long: a step that can be taken is taken in the end.
FairSpec == InitTrees /\ [][Next]_vars /\ WF_vars(Next)

\* ------------------------------------------------------------------ claims

Range(s) == {s[i] : i \in DOMAIN s}

\* A sequence as a multiset.
BagOfSeq(s) == [x \in Range(s) |-> Cardinality({i \in DOMAIN s : s[i] = x})]

\* The rows of a row list that carry a path.
RowsOf(path, rows) ==
    LET Test(row) == row[2] = path IN SelectSeq(rows, Test)

\* The file under the i-th candidate path.
File(i) == ReadFile(tasks[i])

\* The row list extract_data_from_xml returns for the i-th candidate path.
Outcome(i) == extract_data_from_xml(tasks[i], File(i)).data

RECURSIVE OutcomeBag(_)
OutcomeBag(n) ==
    IF n = 0 THEN EmptyBag ELSE OutcomeBag(n - 1) (+) BagOfSeq(Outcome(n))

RECURSIVE OutcomeLen(_)
OutcomeLen(n) == IF n = 0 THEN 0 ELSE OutcomeLen(n - 1) + Len(Outcome(n))

\* The warnings the log holds for a path.
WarningsFor(path) ==
    CopiesIn(<<path, "is not a well-formed XML file">>, warning_log)
    + CopiesIn(<<path, "Unexpected error occurred">>, warning_log)

AllFinished == \A i \in 1..Len(futures) : futures[i].state = "FINISHED"

\* C1: whatever the pool size and the order in which the extractions end, the
\* rows browse_and_extract returns are, as a multiset, the union of the row
\* lists extract_data_from_xml returns for the candidate paths, and their
\* number is the sum of the lengths of those lists.
C1_AggregateIsUnionOfOutcomes ==
    returned.done =>
        /\ BagOfSeq(returned.data) = OutcomeBag(Len(tasks))
        /\ Len(returned.data) = OutcomeLen(Len(tasks))

C1_Witness ==
    /\ returned.done
    /\ max_workers >= 2
    /\ Len(tasks) >= 2
    /\ \E i, j \in 1..Len(tasks) : i # j /\ Len(Outcome(i)) = 2 /\ Len(Outcome(j)) = 1

\* C2 (as claimed): every extraction that ends in a failure, wherever the
\* error is raised, writes a warning and contributes no row to the aggregate,
\* its file is counted, and its outcome is a failure and not also a row list.
C2_FailureContributesNothing ==
    returned.done =>
        \A i \in 1..Len(tasks) :
            File(i).raises # "none" =>
                /\ WarningsFor(tasks[i]) >= 1
                /\ RowsOf(tasks[i], returned.data) = <<>>
                /\ futures[i].result = <<>>
                /\ returned.xml_file_count = Len(tasks)

\* C3: a malformed file yields no row, exactly one warning is written for
\* it, and it is counted among the files attempted.
C3_MalformedFile ==
    \A i \in 1..Len(futures) :
        (futures[i].state = "FINISHED" /\ File(i).raises = "XMLSyntaxError") =>
            /\ ~futures[i].exception
            /\ futures[i].result = <<>>
            /\ WarningsFor(tasks[i]) = 1
            /\ returned.done =>
                  /\ RowsOf(tasks[i], returned.data) = <<>>
                  /\ returned.xml_file_count = Len(tasks)

C3_Witness ==
    /\ returned.done
    /\ \E i \in 1..Len(tasks) : File(i).raises = "XMLSyntaxError"
    /\ returned.xml_file_count >= 2

\* No exception leaves extract_data_from_xml, so none reaches the main thread.
NoAbort ==
    /\ pc # "raised"
    /\ \A i \in 1..Len(futures) : ~futures[i].exception

\* The rows of every file whose extraction raised nothing are in the
\* aggregate as extracted.
SiblingsKept ==
    returned.done =>
        \A i \in 1..Len(tasks) :
            File(i).raises = "none" =>
                RowsOf(tasks[i], returned.data) = TryRows(tasks[i], File(i).elems)

\* C4: whichever files fail, no exception leaves extract_data_from_xml, the
\* rows of the other files are in the aggregate unchanged, and
\* browse_and_extract goes on until it has returned: it never stops before.
C4_PerFileErrorsNeverAbort ==
    /\ NoAbort
    /\ SiblingsKept
    /\ returned.done \/ ENABLED Next

C4_Witness ==
    /\ returned.done
    /\ \E i, j \in 1..Len(tasks) :
          /\ File(i).raises = "Exception"
          /\ File(j).raises = "none"
          /\ RowsOf(tasks[j], returned.data) # <<>>

\* C5: list() ends, and browse_and_extract returns, only after every
\* submitted path has an outcome, all of them collected; and under fair
\* scheduling it does return.
C5_ReturnsAfterAllOutcomes ==
    /\ [](pc \in {"merge", "exit", "done"} =>
            AllFinished /\ Len(results) = Len(tasks) /\ Len(futures) = Len(tasks))
    /\ [](returned.done => pc = "done")
    /\ <>(pc = "done")

C5_Witness ==
    /\ returned.done
    /\ Len(tasks) = MaxDirs
    /\ AllFinished

\* The rows of a row list of one type.
RowsOfType(type, rows) ==
    LET Test(row) == row[1] = type IN SelectSeq(rows, Test)

\* The elements of the file under the i-th candidate path with a tag.
ElementsOf(i, tag) ==
    LET Test(e) == e.tag = tag IN SelectSeq(File(i).elems, Test)

\* The extraction of the i-th candidate path has ended, and its file was
\* well-formed and extracted without an exception.
Extracted(i) == futures[i].state = "FINISHED" /\ File(i).raises = "none"

PlaceholderRow(path) == <<"drug_substance", path, "Missing", "Missing", "N/A">>

\* C6: a well-formed file without substance elements yields exactly one
\* substance row, the placeholder (Missing, Missing, N/A); and when all N
\* candidate files are such files, the aggregate holds exactly N substance
\* rows, all placeholders.
C6_PlaceholderForNoSubstance ==
    /\ \A i \in 1..Len(futures) :
          (Extracted(i) /\ ElementsOf(i, "m3-2-s-drug-substance") = <<>>) =>
              RowsOfType("drug_substance", futures[i].result) = <<PlaceholderRow(tasks[i])>>
    /\ ( /\ returned.done
         /\ \A i \in 1..Len(tasks) :
               File(i).raises = "none" /\ ElementsOf(i, "m3-2-s-drug-substance") = <<>> )
       => LET subs == RowsOfType("drug_substance", returned.data)
          IN  /\ Len(subs) = Len(tasks)
              /\ \A k \in 1..Len(subs) : \E i \in 1..Len(tasks) : subs[k] = PlaceholderRow(tasks[i])

C6_Witness ==
    /\ returned.done
    /\ Len(tasks) >= 2
    /\ \A i \in 1..Len(tasks) :
          File(i).raises = "none" /\ ElementsOf(i, "m3-2-s-drug-substance") = <<>>

\* The value of an attribute, "Missing" standing in exactly when it is absent.
ValueOrMissingWhenAbsent(e, k) ==
    IF k \in DOMAIN e.attrib THEN e.attrib[k] ELSE "Missing"

\* The value of an attribute, "Missing" standing in exactly when it is absent
\* or empty.
ValueOrMissingWhenAbsentOrEmpty(e, k) ==
    IF k \in DOMAIN e.attrib /\ e.attrib[k] # "" THEN e.attrib[k] ELSE "Missing"

\* C7 (as claimed): a well-formed file with k >= 1 substance elements yields
\* exactly k substance rows, the i-th with the i-th element's manufacturer and
\* substance, "Missing" standing in exactly when the attribute is absent, and
\* form N/A.
C7_SubstanceRowsMissingWhenAbsent ==
    \A i \in 1..Len(futures) :
        (Extracted(i) /\ ElementsOf(i, "m3-2-s-drug-substance") # <<>>) =>
            LET subs == ElementsOf(i, "m3-2-s-drug-substance")
            IN  RowsOfType("drug_substance", futures[i].result) =
                    [j \in 1..Len(subs) |->
                        <<"drug_substance", tasks[i],
                          ValueOrMissingWhenAbsent(subs[j], "manufacturer"),
                          ValueOrMissingWhenAbsent(subs[j], "substance"), "N/A">>]

\* C7 (amended): as claimed, but "Missing" stands in exactly when the
\* attribute is absent or its value is the empty string.
C7_SubstanceRowsMissingWhenAbsentOrEmpty ==
    \A i \in 1..Len(futures) :
        (Extracted(i) /\ ElementsOf(i, "m3-2-s-drug-substance") # <<>>) =>
            LET subs == ElementsOf(i, "m3-2-s-drug-substance")
            IN  RowsOfType("drug_substance", futures[i].result) =
                    [j \in 1..Len(subs) |->
                        <<"drug_substance", tasks[i],
                          ValueOrMissingWhenAbsentOrEmpty(subs[j], "manufacturer"),
                          ValueOrMissingWhenAbsentOrEmpty(subs[j], "substance"), "N/A">>]

C7_Witness ==
    \E i \in 1..Len(futures) :
        /\ Extracted(i)
        /\ LET subs == ElementsOf(i, "m3-2-s-drug-substance")
           IN  /\ Len(subs) = 2
               /\ "manufacturer" \notin DOMAIN subs[1].attrib
               /\ "substance" \in DOMAIN subs[1].attrib /\ subs[1].attrib["substance"] = ""
               /\ DOMAIN subs[2].attrib = {"manufacturer", "substance"}
               /\ subs[2].attrib["manufacturer"] = "Acme"
               /\ subs[2].attrib["substance"] = "X"

\* The columns of a product row and the attributes they are read from.
ProductColumns == {<<3, "manufacturer">>, <<4, "product-name">>, <<5, "dosageform">>}

\* C8: a well-formed file yields as many product rows as it has product
\* elements (none when it has none), the j-th row from the j-th element: an
\* absent attribute gives "Missing", a non-empty one gives its value.
C8_OneRowPerProduct ==
    \A i \in 1..Len(futures) :
        Extracted(i) =>
            LET prods == ElementsOf(i, "m3-2-p-drug-product")
                rows == RowsOfType("drug_product", futures[i].result)
            IN  /\ Len(rows) = Len(prods)
                /\ Len(futures[i].result) = Len(rows) + Len(RowsOfType("drug_substance", futures[i].result))
                /\ \A j \in 1..Len(rows) :
                      /\ rows[j][2] = tasks[i]
                      /\ \A c \in ProductColumns :
                            /\ c[2] \notin DOMAIN prods[j].attrib => rows[j][c[1]] = "Missing"
                            /\ (c[2] \in DOMAIN prods[j].attrib /\ prods[j].attrib[c[2]] # "")
                                  => rows[j][c[1]] = prods[j].attrib[c[2]]

C8_Witness ==
    \E i \in 1..Len(futures) :
        /\ Extracted(i)
        /\ LET prods == ElementsOf(i, "m3-2-p-drug-product")
           IN  /\ Len(prods) = 2
               /\ DOMAIN prods[1].attrib = {"product-name", "dosageform"}
               /\ DOMAIN prods[2].attrib = {"manufacturer"}
        /\ returned.done

\* The directories that hold a file named index.xml.
HoldsIndexXml(d) == \E k \in 1..Len(fs[d].files) : fs[d].files[k].name = <<"index", ".xml">>

\* The directories os.walk lists: the readable ones reached from the root
\* through readable directories.
RECURSIVE Listed(_)
Listed(d) == fs[d].readable /\ (fs[d].parent = 0 \/ Listed(fs[d].parent))

\* Every task is in one place: waiting, running, or finished.
SubmittedOnce ==
    pc \notin {"walk"} =>
        /\ Len(futures) = Len(tasks)
        /\ \A i \in 1..Len(tasks) :
              Cardinality({k \in 1..Len(work_queue) : work_queue[k] = i})
              + (IF i \in running THEN 1 ELSE 0)
              + (IF futures[i].state = "FINISHED" THEN 1 ELSE 0) = 1

\* The candidate paths are the files named index.xml of the directories D,
\* each once, and they are what is counted.
CandidatesAre(D) ==
    pc \notin {"walk"} =>
        /\ Range(tasks) = {<<d, <<"index", ".xml">> >> : d \in {x \in D : HoldsIndexXml(x)}}
        /\ Len(tasks) = Cardinality(Range(tasks))
        /\ xml_file_count = Cardinality({x \in D : HoldsIndexXml(x)})
        /\ returned.done => returned.xml_file_count = xml_file_count

\* C9 (as claimed, for a root that can be listed): every file named
\* index.xml under the root, at any depth, becomes a candidate path exactly
\* once, no other file does, each candidate is submitted exactly once, and
\* the count returned is the number of such files.
C9_EveryIndexXmlUnderRoot ==
    fs[1].readable => (CandidatesAre(1..Len(fs)) /\ SubmittedOnce)

\* C9 (amended): the same of the files named index.xml in the directories
\* os.walk lists.
C9_EveryIndexXmlInListedDirectories ==
    CandidatesAre({d \in 1..Len(fs) : Listed(d)}) /\ SubmittedOnce

C9_Witness ==
    /\ returned.done
    /\ returned.xml_file_count >= 1
    /\ \E d \in 1..Len(fs) : ~Listed(d) /\ HoldsIndexXml(d)
    /\ \E d \in 1..Len(fs) : Listed(d) /\ fs[d].parent # 0 /\ HoldsIndexXml(d)

\* C10: in the aggregate the rows of one candidate file are one block
\* without gaps, in the order of that file's outcome, whatever the order in
\* which the extractions ended.
C10_RowsOfAFileContiguousInOrder ==
    returned.done =>
        \A i \in 1..Len(tasks) :
            LET at == {k \in 1..Len(returned.data) : returned.data[k][2] = tasks[i]}
            IN  /\ RowsOf(tasks[i], returned.data) = futures[i].result
                /\ \A k, m \in at : \A j \in k..m : j \in at

C10_Witness ==
    /\ returned.done
    /\ max_workers >= 2
    /\ \E i, j \in 1..Len(tasks) :
          i < j /\ Len(futures[i].result) = 2 /\ Len(futures[j].result) = 2

\* The report holds the header and the rows of the aggregate, one per record.
ReportHoldsAggregate ==
    /\ csv_file.header = <<"Type", "File Path", "Manufacturer", "Name", "Form">>
    /\ csv_file.rows = returned.data

\* C11 (as claimed): when main has ended, the report file was written if and
\* only if the aggregate is not empty, and then holds one row per record; a
\* tree without candidate files gives no record, no file attempted and no
\* report; and a run in which every attempted file failed writes no report.
C11_ReportIffAggregateNonEmpty ==
    main_pc = "end" =>
        /\ csv_file.written <=> returned.data # <<>>
        /\ csv_file.written => ReportHoldsAggregate
        /\ (\A d \in 1..Len(fs) : ~HoldsIndexXml(d)) =>
              /\ returned.data = <<>>
              /\ returned.xml_file_count = 0
              /\ ~csv_file.written
        /\ (\A i \in 1..Len(tasks) : File(i).raises # "none") => ~csv_file.written

\* C12 (as claimed): when the root cannot be listed the run does not end as
\* a completed run (browse_and_extract does not return and no summary is
\* printed) and no extraction is dispatched; and nothing else ends the run
\* with an error.
C12_UnreadableRootAborts ==
    /\ ~fs[1].readable =>
          /\ ~returned.done
          /\ ~summary.printed
          /\ futures = <<>> /\ work_queue = <<>> /\ running = {}
    /\ fs[1].readable => NoAbort

\* C13: at every moment, the number of invocations of extract_data_from_xml
\* under way is at most the size of the pool, however many paths were
\* submitted.
C13_AtMostPoolSizeRunning ==
    /\ Cardinality(running) <= max_workers
    /\ Cardinality({i \in 1..Len(futures) : futures[i].state = "RUNNING"}) <= max_workers

C13_Witness ==
    /\ Len(tasks) > max_workers
    /\ Cardinality(running) = max_workers
    /\ max_workers >= 2
    /\ work_queue # <<>>

\* The directories whose index.xml the walk finds.
CandidateDirs == {d \in 1..Len(fs) : Listed(d) /\ HoldsIndexXml(d)}

\* The subdirectories at which the walk meets an error: it reaches them and
\* cannot list them.
SkippedDirs == {d \in 2..Len(fs) : ~fs[d].readable /\ Listed(fs[d].parent)}

\* C14: a subdirectory that cannot be listed is passed over and the walk
\* goes on: every index.xml of the directories the walk lists is a task and
\* its extraction is done by the time of the return, no task, outcome or
\* warning exists for a path in a directory passed over, the count is the
\* number of files found in the listed directories, and the walk never
\* stops: it has a next step until the tasks are submitted, and nothing is
\* raised.
C14_SubdirectoryErrorSkipped ==
    /\ pc # "walk" =>
          /\ \A d \in CandidateDirs : \E i \in 1..Len(tasks) : tasks[i] = <<d, <<"index", ".xml">> >>
          /\ \A i \in 1..Len(tasks) : Listed(tasks[i][1])
          /\ xml_file_count = Cardinality(CandidateDirs)
    /\ returned.done =>
          /\ AllFinished
          /\ returned.xml_file_count = Cardinality(CandidateDirs)
    /\ \A d \in 1..Len(fs) : ~Listed(d) => WarningsFor(<<d, <<"index", ".xml">> >>) = 0
    /\ pc # "raised"
    /\ pc = "walk" => ENABLED (WalkStep \/ Map)

C14_Witness ==
    /\ main_pc = "end"
    /\ \E d \in SkippedDirs : HoldsIndexXml(d) /\ \E e \in CandidateDirs : e > d
    /\ returned.xml_file_count = 1

RECURSIVE BagOfDirs(_)
\* The rows of the index.xml files of the directories D, as a multiset.
BagOfDirs(D) ==
    IF D = {} THEN EmptyBag
    ELSE LET d == CHOOSE x \in D : TRUE
             path == MkPath(d, FILE_NAME)
         IN  BagOfSeq(extract_data_from_xml(path, ReadFile(path)).data) (+) BagOfDirs(D \ {d})

\* C15: the rows returned, as a multiset, and the count returned are
\* functions of the tree alone: whatever the pool size and the order of the
\* worker steps, a run on the same tree returns the same multiset and count.
C15_SameTreeSameAggregate ==
    returned.done =>
        /\ BagOfSeq(returned.data) = BagOfDirs(CandidateDirs)
        /\ returned.xml_file_count = Cardinality(CandidateDirs)

C15_Witness ==
    /\ returned.done
    /\ max_workers >= 2
    /\ Cardinality(CandidateDirs) = MaxDirs
    /\ \E i, j \in 1..Len(tasks) : Len(Outcome(i)) = 2 /\ Len(Outcome(j)) = 0

\* A step of a worker thread: a task starts or ends.
WorkerStep == running' # running

\* C16 (as claimed): data and xml_file_count are not changed by a step of a
\* worker thread, and both change only at the merge point, after the
\* extractions have ended; a worker step that ends a task changes only that
\* task's future.
C16_WrittenOnlyAtMergePoint ==
    [][ /\ WorkerStep => UNCHANGED <<data, xml_file_count>>
        /\ (data' # data \/ xml_file_count' # xml_file_count) =>
              (pc = "merge" /\ AllFinished /\ running = {} /\ work_queue = <<>>)
        /\ \A i \in running \ running' :
              \A j \in 1..Len(futures) : j # i => futures'[j] = futures[j] ]_vars

\* C16 (amended): as claimed of data; xml_file_count changes only in the
\* walk, by the main thread, before any task is submitted.
C16_DataAtMergeCountInWalk ==
    [][ /\ WorkerStep => UNCHANGED <<data, xml_file_count>>
        /\ data' # data =>
              /\ pc = "merge" /\ AllFinished /\ running = {} /\ work_queue = <<>>
              /\ merged < Len(results)
              /\ data' = data \o futures[merged + 1].result
        /\ xml_file_count' # xml_file_count =>
              (pc = "walk" /\ futures = <<>> /\ running = {} /\ work_queue = <<>>)
        /\ \A i \in running \ running' :
              \A j \in 1..Len(futures) : j # i => futures'[j] = futures[j] ]_vars

C16_Witness ==
    /\ pc = "merge"
    /\ max_workers >= 2
    /\ merged = 2
    /\ Len(data) >= 3
    /\ xml_file_count = MaxDirs

RECURSIVE ConcatOutcomes(_)
\* The row lists of the first n candidate paths, one after the other.
ConcatOutcomes(n) == IF n = 0 THEN <<>> ELSE ConcatOutcomes(n - 1) \o Outcome(n)

RECURSIVE WalkOrder(_)
\* The candidate paths in the order os.walk comes to them, top down.
WalkOrder(stk) ==
    IF stk = <<>> THEN <<>>
    ELSE LET d == Head(stk)
         IN  IF fs[d].readable
             THEN (IF HoldsIndexXml(d) THEN <<MkPath(d, FILE_NAME)>> ELSE <<>>)
                  \o WalkOrder(Subfolders(d) \o Tail(stk))
             ELSE WalkOrder(Tail(stk))

\* C17: the rows returned are the row lists of the candidate paths one after
\* the other, in the order of submission, which is the order in which the
\* walk came to the files: the sequence is a function of the tree, the same
\* for every pool size and every order in which the extractions end.
C17_ConcatenationInSubmissionOrder ==
    returned.done =>
        /\ tasks = WalkOrder(<<1>>)
        /\ returned.data = ConcatOutcomes(Len(tasks))

C17_Witness ==
    /\ returned.done
    /\ max_workers >= 2
    /\ Len(tasks) = MaxDirs
    /\ Len(Outcome(1)) = 1 /\ Len(Outcome(2)) = 2 /\ Len(Outcome(3)) = 1

\* An extraction has started.
ExtractionStarted ==
    running # {} \/ \E i \in 1..Len(futures) : futures[i].state # "PENDING"

\* C18: no extraction starts before the walk has ended and the count is
\* what it stays; no row is merged before every submitted extraction has
\* ended and its result was taken; the summary and the report come only
\* after the merge has ended and browse_and_extract has returned.
C18_PhasesStrictlyOrdered ==
    /\ (ExtractionStarted \/ futures # <<>>) =>
          /\ pc # "walk" /\ stack = <<>>
          /\ Len(futures) = Len(tasks)
          /\ xml_file_count = Len(tasks)
          /\ tasks = WalkOrder(<<1>>)
    /\ (merged > 0 \/ data # <<>>) =>
          /\ pc \in {"merge", "exit", "done"}
          /\ AllFinished /\ running = {} /\ work_queue = <<>>
          /\ Len(results) = Len(tasks)
    /\ (main_pc # "browse" \/ summary.printed \/ csv_file.written) =>
          /\ pc = "done" /\ returned.done
          /\ merged = Len(results)
          /\ returned.data = data
    /\ csv_file.written => summary.printed

C18_Witness ==
    /\ main_pc = "end"
    /\ csv_file.written
    /\ max_workers >= 2
    /\ merged = MaxDirs

\* The candidate files whose extraction ended without an error.
Successes == {i \in 1..Len(tasks) : File(i).raises = "none"}

\* C19: a file extracted without an error gives at least one substance
\* row; so in the summary the substance count is at least the number of such
\* files, the two counts add up to the number of rows, and the aggregate is
\* empty exactly when there is no candidate or every candidate failed
\* before a row was produced.
C19_CountsAndEmptiness ==
    /\ \A i \in 1..Len(futures) :
          Extracted(i) => Len(RowsOfType("drug_substance", futures[i].result)) >= 1
    /\ summary.printed =>
          /\ summary.drug_substance_count >= Cardinality(Successes)
          /\ summary.drug_substance_count + summary.drug_product_count = Len(returned.data)
          /\ returned.data = <<>> <=>
                \A i \in 1..Len(tasks) : File(i).raises # "none" /\ Outcome(i) = <<>>

C19_Witness ==
    /\ summary.printed
    /\ Cardinality(Successes) = 2
    /\ summary.drug_substance_count = 2
    /\ summary.drug_product_count = 2
    /\ \E i \in 1..Len(tasks) : File(i).raises = "XMLSyntaxError"

====
